---- MODULE Spec2Model ----
(***************************************************************************)
(* University Appointment System (src/app.py): the five tables, the        *)
(* browser session and one action per Flask request handler.               *)
(*                                                                         *)
(* A table is the sequence of its rows in insertion order; the integer     *)
(* primary key of a row is its position, since no handler deletes a row.   *)
(* The session is the set of <<key, value>> pairs of Flask's session dict. *)
(* Every handler runs as one atomic step and leaves behind the message it  *)
(* flashed and the response it returned. One browser client is modelled;   *)
(* other clients' requests are the same steps taken after a logout and a   *)
(* login.                                                                  *)
(***************************************************************************)
EXTENDS Integers, Sequences, FiniteSets, TLC

VARIABLES
    departments,    \* rows of Department
    users,          \* rows of User
    availability,   \* rows of Availability
    appointments,   \* rows of Appointment
    notifications,  \* rows of Notification
    session,        \* the client's session dict, as a set of <<key, value>>
    flashed,        \* what the latest request passed to flash(), or NoFlash
    response        \* what the latest request returned

tables == <<departments, users, availability, appointments, notifications>>
vars == <<departments, users, availability, appointments, notifications,
          session, flashed, response>>

(***************************************************************************)
(* Bounds of the model and the sets the request parameters are drawn from. *)
(***************************************************************************)
\* How many rows the handlers may insert into User, Department, Appointment
\* and Availability together, on top of the rows init-db seeds.
MaxInserts == 2

Methods == {"GET", "POST"}
Names == {"New User"}
NewEmail == "new@wsu.edu"
\* A new user may pick the password the seeded student has.
RegPasswords == {"student123"}
\* "guest" stands for every role string that is none of the three the
\* handlers compare against; the role column is free text.
Roles == {"student", "faculty", "admin", "guest"}
\* The department_id form field: empty, or the id of a department that does
\* not exist until an admin adds a fourth one.
DeptFormValues == {"", "4"}
\* The salts generate_password_hash may draw for a registration.
Salts == {"s2"}
\* The faculty_id form field: two seeded faculty members, the id the first
\* registered user gets (any role, or nobody at all), and text int() rejects.
FacultyIdInputs == {"2", "3", "6", "abc"}
Dates == {"2024-03-01"}
ApptStarts == {"09:00"}
ApptEnds == {"10:00"}
Purposes == {"advising"}
Days == {"Mon"}
\* <<start_time, end_time>> of a slot: two that overlap, and one that ends
\* before it starts.
SlotTimes == {<<"09:00", "10:00">>, <<"09:30", "10:30">>, <<"10:00", "09:00">>}
DeptNames == {"Computer Science", "Physics"}
Buildings == {"Jabara Hall"}
Phones == {"316-978-0000"}
\* The appointment ids a cancel request may name, one of them never present.
CancelIds == 1 .. (MaxInserts + 1)

\* request.form: the submitted fields of a POST; a GET carries no form.
EmptyForm == [fields |-> {}]
Forms(method, posted) == IF method = "POST" THEN posted ELSE {EmptyForm}
\* Registrations: the new email with every role and no department, a faculty
\* member who also names a department, and one with a seeded user's email.
RegisterForms ==
    [name : Names, email : {NewEmail}, password : RegPasswords, role : Roles,
     department_id : {""}]
    \cup [name : Names, email : {NewEmail}, password : RegPasswords,
          role : {"faculty"}, department_id : DeptFormValues]
    \cup [name : Names, email : {"student@university.edu"},
          password : RegPasswords, role : {"student"}, department_id : {""}]
\* Logins: each user's own password, and two emails with another user's.
LoginForms ==
    { [email |-> "admin@university.edu", password |-> "admin123"],
      [email |-> "johnson@wsu.edu", password |-> "demo-johnson"],
      [email |-> "johnson@wsu.edu", password |-> "admin123"],
      [email |-> "student@university.edu", password |-> "student123"],
      [email |-> NewEmail, password |-> "student123"],
      [email |-> NewEmail, password |-> "admin123"] }
AppointmentForms ==
    [faculty_id : FacultyIdInputs, appointment_date : Dates,
     start_time : ApptStarts, end_time : ApptEnds, purpose : Purposes]
AvailabilityForms ==
    {[day_of_week |-> d, start_time |-> t[1], end_time |-> t[2]] :
        d \in Days, t \in SlotTimes}
DepartmentForms ==
    [department_name : DeptNames, building : Buildings, phone : Phones]

(***************************************************************************)
(* Values                                                                  *)
(***************************************************************************)
\* SQL NULL of a nullable integer column (Python None); primary keys start at 1.
NULL == 0

NoFlash == [message |-> "", category |-> ""]
Flash(message, category) == [message |-> message, category |-> category]

Redirect(endpoint) == [kind |-> "redirect", target |-> endpoint]
Render(template, context) ==
    [kind |-> "render", target |-> template, context |-> context]
\* get_or_404 aborting the request
NotFound == [kind |-> "abort", target |-> "404"]
\* an exception no handler catches
ServerError == [kind |-> "error", target |-> "500"]

\* int() of a form field, on the values the model submits
IsInt(text) == text \in {"2", "3", "4", "6"}
ParseInt(text) ==
    CASE text = "2" -> 2 [] text = "3" -> 3 [] text = "4" -> 4 [] text = "6" -> 6

\* werkzeug's salted one-way hash as a symbolic term: the digest of a salt
\* and a password equals the digest of another pair only if the pairs are equal.
Digest(salt, password) == <<"digest", salt, password>>
generate_password_hash(password, salt) ==
    [salt |-> salt, digest |-> Digest(salt, password)]
check_password_hash(pwhash, password) ==
    pwhash.digest = Digest(pwhash.salt, password)

Range(rows) == {rows[i] : i \in 1 .. Len(rows)}

(***************************************************************************)
(* init-db: the only code that creates the tables, so its result is the    *)
(* initial store.                                                          *)
(***************************************************************************)
SeedDepartments ==
    << [department_id |-> 1, department_name |-> "Computer Science",
        building |-> "Ahlberg Hall", phone |-> "316-978-3000"],
       [department_id |-> 2, department_name |-> "Mathematics",
        building |-> "Jabara Hall", phone |-> "316-978-3160"],
       [department_id |-> 3, department_name |-> "Electrical Engineering",
        building |-> "Wallace Hall", phone |-> "316-978-3400"] >>

\* The salt of init-db's five hashes. A registration draws another one, so
\* the new user's hash of "student123" is not the seeded student's.
SeedSalt == "s1"

SeedUsers(salt) ==
    << [user_id |-> 1, name |-> "Admin User", email |-> "admin@university.edu",
        role |-> "admin", department_id |-> 1,
        password_hash |-> generate_password_hash("admin123", salt)],
       [user_id |-> 2, name |-> "Dr. Johnson (Computer Science)",
        email |-> "johnson@wsu.edu", role |-> "faculty", department_id |-> 1,
        password_hash |-> generate_password_hash("demo-johnson", salt)],
       [user_id |-> 3, name |-> "Dr. Emily Lee (Mathematics)",
        email |-> "elee@wsu.edu", role |-> "faculty", department_id |-> 2,
        password_hash |-> generate_password_hash("demo-lee", salt)],
       [user_id |-> 4, name |-> "Dr. Patel (Electrical Engineering)",
        email |-> "patel@wsu.edu", role |-> "faculty", department_id |-> 3,
        password_hash |-> generate_password_hash("demo-patel", salt)],
       [user_id |-> 5, name |-> "John Student",
        email |-> "student@university.edu", role |-> "student",
        department_id |-> 1,
        password_hash |-> generate_password_hash("student123", salt)] >>

\* Rows the handlers have inserted so far (a Notification comes with its
\* Appointment and is not counted apart).
InsertedRows ==
    (Len(users) - Len(SeedUsers(SeedSalt)))
    + (Len(departments) - Len(SeedDepartments))
    + Len(appointments) + Len(availability)

Init ==
    /\ departments = SeedDepartments
    /\ users = SeedUsers(SeedSalt)
    /\ availability = << >>
    /\ appointments = << >>
    /\ notifications = << >>
    /\ session = {}
    /\ flashed = NoFlash
    /\ response = Redirect("login")

(***************************************************************************)
(* Helper functions                                                        *)
(***************************************************************************)
\* "key in session"
InSession(key) == \E kv \in session : kv[1] = key
\* session.get(key): the values under key, none or one
SessionGet(key) == {kv[2] : kv \in {x \in session : x[1] = key}}

\* User.query.filter_by(email=email): the matching rows, in table order
filter_by_email(email) == SelectSeq(users, LAMBDA u : u.email = email)

\* current_user(): the row of the session's user, none or one
current_user ==
    {u \in Range(users) : u.user_id \in {uid \in SessionGet("user_id") : uid # 0}}

\* Variant of login_required that flashes but does not return the redirect,
\* so the handler runs with no user and raises; C3 must not hold of it.
login_required_broken(func) ==
    \/ /\ ~InSession("user_id")
       /\ flashed' = Flash("Please log in first.", "warning")
       /\ response' = ServerError
       /\ UNCHANGED <<tables, session>>
    \/ /\ InSession("user_id")
       /\ func

\* login_required(func): the wrapper around a protected handler
login_required(func) ==
    \/ /\ ~InSession("user_id")
       /\ flashed' = Flash("Please log in first.", "warning")
       /\ response' = Redirect("login")
       /\ UNCHANGED <<tables, session>>
    \/ /\ InSession("user_id")
       /\ func

(***************************************************************************)
(* Routes: Auth                                                            *)
(***************************************************************************)
\* Variant of register without the lookup of the email; C7 must not hold of it.
register_unchecked(method, form) ==
    IF method = "POST"
    THEN /\ InsertedRows < MaxInserts
         /\ \E salt \in Salts :
               users' = Append(users,
                   [user_id |-> Len(users) + 1,
                    name |-> form.name,
                    email |-> form.email,
                    role |-> form.role,
                    password_hash |-> generate_password_hash(form.password, salt),
                    department_id |->
                       IF form.department_id # ""
                       THEN ParseInt(form.department_id) ELSE NULL])
         /\ flashed' = Flash("Registration successful. Please log in.", "success")
         /\ response' = Redirect("login")
         /\ UNCHANGED <<departments, availability, appointments,
                        notifications, session>>
    ELSE /\ flashed' = NoFlash
         /\ response' = Render("register.html", [departments |-> departments])
         /\ UNCHANGED <<tables, session>>

register(method, form) ==
    IF method = "POST"
    THEN IF filter_by_email(form.email) # << >>
         THEN /\ flashed' = Flash("Email already registered.", "danger")
              /\ response' = Redirect("register")
              /\ UNCHANGED <<tables, session>>
         ELSE /\ InsertedRows < MaxInserts
              /\ \E salt \in Salts :
                    users' = Append(users,
                        [user_id |-> Len(users) + 1,
                         name |-> form.name,
                         email |-> form.email,
                         role |-> form.role,
                         password_hash |->
                            generate_password_hash(form.password, salt),
                         department_id |->
                            IF form.department_id # ""
                            THEN ParseInt(form.department_id) ELSE NULL])
              /\ flashed' = Flash("Registration successful. Please log in.", "success")
              /\ response' = Redirect("login")
              /\ UNCHANGED <<departments, availability, appointments,
                             notifications, session>>
    ELSE /\ flashed' = NoFlash
         /\ response' = Render("register.html", [departments |-> departments])
         /\ UNCHANGED <<tables, session>>

\* Variant of login that does not check the password; C8 must not hold of it.
login_email_only(method, form) ==
    IF method = "POST"
    THEN IF filter_by_email(form.email) # << >>
         THEN /\ session' = {kv \in session : kv[1] # "user_id"}
                    \cup {<<"user_id", Head(filter_by_email(form.email)).user_id>>}
              /\ flashed' = Flash("Logged in successfully.", "success")
              /\ response' = Redirect("dashboard")
              /\ UNCHANGED tables
         ELSE /\ flashed' = Flash("Invalid email or password.", "danger")
              /\ response' = Render("login.html", [form |-> "login"])
              /\ UNCHANGED <<tables, session>>
    ELSE /\ flashed' = NoFlash
         /\ response' = Render("login.html", [form |-> "login"])
         /\ UNCHANGED <<tables, session>>

login(method, form) ==
    IF method = "POST"
    THEN IF /\ filter_by_email(form.email) # << >>
            /\ check_password_hash(Head(filter_by_email(form.email)).password_hash,
                                   form.password)
         THEN /\ session' = {kv \in session : kv[1] # "user_id"}
                    \cup {<<"user_id", Head(filter_by_email(form.email)).user_id>>}
              /\ flashed' = Flash("Logged in successfully.", "success")
              /\ response' = Redirect("dashboard")
              /\ UNCHANGED tables
         ELSE /\ flashed' = Flash("Invalid email or password.", "danger")
              /\ response' = Render("login.html", [form |-> "login"])
              /\ UNCHANGED <<tables, session>>
    ELSE /\ flashed' = NoFlash
         /\ response' = Render("login.html", [form |-> "login"])
         /\ UNCHANGED <<tables, session>>

logout ==
    /\ session' = {}
    /\ flashed' = Flash("Logged out.", "info")
    /\ response' = Redirect("login")
    /\ UNCHANGED tables

index ==
    /\ response' = IF InSession("user_id") THEN Redirect("dashboard")
                   ELSE Redirect("login")
    /\ flashed' = NoFlash
    /\ UNCHANGED <<tables, session>>

(***************************************************************************)
(* Routes: Dashboard                                                       *)
(***************************************************************************)
\* Variant of dept_join that joins Appointment on student_id; C9 must not
\* hold of it.
dept_join_on_student ==
    {row \in Range(departments) \X Range(users) \X Range(appointments) :
        /\ row[2].department_id = row[1].department_id
        /\ row[3].student_id = row[2].user_id}

\* The rows of Department JOIN User ON User.department_id =
\* Department.department_id JOIN Appointment ON Appointment.faculty_id =
\* User.user_id.
dept_join ==
    {row \in Range(departments) \X Range(users) \X Range(appointments) :
        /\ row[2].department_id = row[1].department_id
        /\ row[3].faculty_id = row[2].user_id}

\* GROUP BY Department.department_name with count(Appointment.appointment_id):
\* one <<name, count>> per group of joined rows.
dept_counts ==
    {<<n, Cardinality({row \in dept_join : row[1].department_name = n})>> :
        n \in {row[1].department_name : row \in dept_join}}

\* labels and values: the result rows as two lists, here in the order of the
\* Department table.
chart_labels ==
    SelectSeq([i \in 1 .. Len(departments) |-> departments[i].department_name],
              LAMBDA n : \E dc \in dept_counts : dc[1] = n)
chart_values ==
    [i \in 1 .. Len(chart_labels) |->
        (CHOOSE dc \in dept_counts : dc[1] = chart_labels[i])[2]]

filter_by_student_id(uid) == SelectSeq(appointments, LAMBDA a : a.student_id = uid)
filter_by_faculty_id(uid) == SelectSeq(appointments, LAMBDA a : a.faculty_id = uid)

my_appointments(user) ==
    IF user.role = "student" THEN Len(filter_by_student_id(user.user_id))
    ELSE IF user.role = "faculty" THEN Len(filter_by_faculty_id(user.user_id))
    ELSE Len(appointments)

dashboard ==
    login_required(
        /\ \E user \in current_user :
            response' = Render("dashboard.html",
                [user |-> user,
                 total_appointments |-> Len(appointments),
                 my_appointments |-> my_appointments(user),
                 chart_labels |-> chart_labels,
                 chart_values |-> chart_values])
        /\ flashed' = NoFlash
        /\ UNCHANGED <<tables, session>>)

(***************************************************************************)
(* Routes: Appointments                                                    *)
(***************************************************************************)
appointments_list ==
    login_required(
        /\ \E user \in current_user :
            response' = Render("appointments.html",
                [appointments |->
                    IF user.role = "student" THEN filter_by_student_id(user.user_id)
                    ELSE IF user.role = "faculty" THEN filter_by_faculty_id(user.user_id)
                    ELSE appointments,
                 user |-> user])
        /\ flashed' = NoFlash
        /\ UNCHANGED <<tables, session>>)

\* Variant of new_notification built before the appointment's commit gave it
\* an id; C5 must not hold of it.
new_notification_unbound(appointment_id, form) ==
    [notification_id |-> Len(notifications) + 1,
     appointment_id |-> NULL,
     message |-> <<"New appointment on ", form.appointment_date,
                   " at ", form.start_time>>,
     sent_status |-> "pending"]

new_notification(appointment_id, form) ==
    [notification_id |-> Len(notifications) + 1,
     appointment_id |-> appointment_id,
     message |-> <<"New appointment on ", form.appointment_date,
                   " at ", form.start_time>>,
     sent_status |-> "pending"]

new_appointment(method, form) ==
    login_required(
        \E user \in current_user :
            IF user.role # "student"
            THEN /\ flashed' = Flash("Only students can create appointments in this demo.",
                                     "warning")
                 /\ response' = Redirect("appointments")
                 /\ UNCHANGED <<tables, session>>
            ELSE IF method = "POST" /\ ~IsInt(form.faculty_id)
            \* int() raises ValueError; nothing catches it
            THEN /\ flashed' = NoFlash
                 /\ response' = ServerError
                 /\ UNCHANGED <<tables, session>>
            ELSE IF method = "POST"
            THEN /\ InsertedRows < MaxInserts
                 /\ appointments' = Append(appointments,
                        [appointment_id |-> Len(appointments) + 1,
                         student_id |-> user.user_id,
                         faculty_id |-> ParseInt(form.faculty_id),
                         appointment_date |-> form.appointment_date,
                         start_time |-> form.start_time,
                         end_time |-> form.end_time,
                         purpose |-> form.purpose,
                         status |-> "scheduled"])
                 /\ notifications' = Append(notifications,
                        new_notification(Len(appointments) + 1, form))
                 /\ flashed' = Flash("Appointment created.", "success")
                 /\ response' = Redirect("appointments")
                 /\ UNCHANGED <<departments, users, availability, session>>
            ELSE /\ flashed' = NoFlash
                 /\ response' = Render("new_appointment.html",
                        [faculty_members |->
                            SelectSeq(users, LAMBDA u : u.role = "faculty")])
                 /\ UNCHANGED <<tables, session>>)

\* Variant of cancel_denied without the faculty check; C2 must not hold of it.
cancel_denied_student_only(user, appt) ==
    user.role = "student" /\ appt.student_id # user.user_id

\* The "simple authorization check": whether the request is turned away
cancel_denied(user, appt) ==
    \/ user.role = "student" /\ appt.student_id # user.user_id
    \/ user.role = "faculty" /\ appt.faculty_id # user.user_id

\* Variant of cancelled_row that schedules a cancelled appointment again;
\* C4 must not hold of it.
cancelled_row_toggling(appt) ==
    [appt EXCEPT !.status = IF appt.status = "cancelled" THEN "scheduled"
                            ELSE "cancelled"]

\* appt.status = "cancelled"
cancelled_row(appt) == [appt EXCEPT !.status = "cancelled"]

cancel_appointment(appointment_id) ==
    login_required(
        \E user \in current_user :
            IF appointment_id \notin 1 .. Len(appointments)
            THEN /\ flashed' = NoFlash
                 /\ response' = NotFound
                 /\ UNCHANGED <<tables, session>>
            ELSE IF cancel_denied(user, appointments[appointment_id])
            THEN /\ flashed' = Flash("You cannot cancel others' appointments.", "danger")
                 /\ response' = Redirect("appointments")
                 /\ UNCHANGED <<tables, session>>
            ELSE /\ appointments' =
                        [appointments EXCEPT ![appointment_id] =
                            cancelled_row(appointments[appointment_id])]
                 /\ flashed' = Flash("Appointment cancelled.", "info")
                 /\ response' = Redirect("appointments")
                 /\ UNCHANGED <<departments, users, availability, notifications,
                                session>>)

(***************************************************************************)
(* Routes: Availability                                                    *)
(***************************************************************************)
slots_of(rows, uid) == SelectSeq(rows, LAMBDA s : s.faculty_id = uid)

new_slot(user, form) ==
    [availability_id |-> Len(availability) + 1,
     faculty_id |-> user.user_id,
     day_of_week |-> form.day_of_week,
     start_time |-> form.start_time,
     end_time |-> form.end_time,
     is_available |-> TRUE]

\* Variant of availability_route without the role check; C6 must not hold
\* of it.
availability_route_any_role(method, form) ==
    login_required(
        \E user \in current_user :
            IF method = "POST"
            THEN /\ InsertedRows < MaxInserts
                 /\ availability' = Append(availability, new_slot(user, form))
                 /\ flashed' = Flash("Availability slot added.", "success")
                 /\ response' = Render("availability.html",
                        [slots |-> slots_of(availability', user.user_id)])
                 /\ UNCHANGED <<departments, users, appointments, notifications,
                                session>>
            ELSE /\ flashed' = NoFlash
                 /\ response' = Render("availability.html",
                        [slots |-> slots_of(availability, user.user_id)])
                 /\ UNCHANGED <<tables, session>>)

\* Variant of availability_route that turns away a second slot on a day the
\* faculty member already has one; C10 must not hold of it.
availability_route_one_per_day(method, form) ==
    login_required(
        \E user \in current_user :
            IF user.role # "faculty"
            THEN /\ flashed' = Flash("Only faculty can manage availability.", "warning")
                 /\ response' = Redirect("dashboard")
                 /\ UNCHANGED <<tables, session>>
            ELSE IF /\ method = "POST"
                    /\ \E s \in Range(availability) :
                         /\ s.faculty_id = user.user_id
                         /\ s.day_of_week = form.day_of_week
            THEN /\ flashed' = Flash("Slot conflicts with an existing one.", "danger")
                 /\ response' = Render("availability.html",
                        [slots |-> slots_of(availability, user.user_id)])
                 /\ UNCHANGED <<tables, session>>
            ELSE IF method = "POST"
            THEN /\ InsertedRows < MaxInserts
                 /\ availability' = Append(availability, new_slot(user, form))
                 /\ flashed' = Flash("Availability slot added.", "success")
                 /\ response' = Render("availability.html",
                        [slots |-> slots_of(availability', user.user_id)])
                 /\ UNCHANGED <<departments, users, appointments, notifications,
                                session>>
            ELSE /\ flashed' = NoFlash
                 /\ response' = Render("availability.html",
                        [slots |-> slots_of(availability, user.user_id)])
                 /\ UNCHANGED <<tables, session>>)

availability_route(method, form) ==
    login_required(
        \E user \in current_user :
            IF user.role # "faculty"
            THEN /\ flashed' = Flash("Only faculty can manage availability.", "warning")
                 /\ response' = Redirect("dashboard")
                 /\ UNCHANGED <<tables, session>>
            ELSE IF method = "POST"
            THEN /\ InsertedRows < MaxInserts
                 /\ availability' = Append(availability, new_slot(user, form))
                 /\ flashed' = Flash("Availability slot added.", "success")
                 /\ response' = Render("availability.html",
                        [slots |-> slots_of(availability', user.user_id)])
                 /\ UNCHANGED <<departments, users, appointments, notifications,
                                session>>
            ELSE /\ flashed' = NoFlash
                 /\ response' = Render("availability.html",
                        [slots |-> slots_of(availability, user.user_id)])
                 /\ UNCHANGED <<tables, session>>)

(***************************************************************************)
(* Routes: Departments                                                     *)
(***************************************************************************)
departments_route(method, form) ==
    login_required(
        \E user \in current_user :
            IF user.role # "admin"
            THEN /\ flashed' = Flash("Only admin can manage departments.", "warning")
                 /\ response' = Redirect("dashboard")
                 /\ UNCHANGED <<tables, session>>
            ELSE IF method = "POST"
            THEN IF \E d \in Range(departments) :
                        d.department_name = form.department_name
                 \* the unique constraint fails the commit; nothing catches it
                 THEN /\ flashed' = NoFlash
                      /\ response' = ServerError
                      /\ UNCHANGED <<tables, session>>
                 ELSE /\ InsertedRows < MaxInserts
                      /\ departments' = Append(departments,
                            [department_id |-> Len(departments) + 1,
                             department_name |-> form.department_name,
                             building |-> form.building,
                             phone |-> form.phone])
                      /\ flashed' = Flash("Department added.", "success")
                      /\ response' = Render("departments.html",
                            [departments |-> departments'])
                      /\ UNCHANGED <<users, availability, appointments,
                                     notifications, session>>
            ELSE /\ flashed' = NoFlash
                 /\ response' = Render("departments.html",
                        [departments |-> departments])
                 /\ UNCHANGED <<tables, session>>)

Next ==
    \/ \E method \in Methods : \E form \in Forms(method, RegisterForms) :
            register(method, form)
    \/ \E method \in Methods : \E form \in Forms(method, LoginForms) :
            login(method, form)
    \/ logout
    \/ index
    \/ dashboard
    \/ appointments_list
    \/ \E method \in Methods : \E form \in Forms(method, AppointmentForms) :
            new_appointment(method, form)
    \/ \E appointment_id \in CancelIds : cancel_appointment(appointment_id)
    \/ \E method \in Methods : \E form \in Forms(method, AvailabilityForms) :
            availability_route(method, form)
    \/ \E method \in Methods : \E form \in Forms(method, DepartmentForms) :
            departments_route(method, form)

Spec == Init /\ [][Next]_vars

(***************************************************************************)
(* The error kinds of the specification, as the flash and the response a   *)
(* handler leaves behind.                                                  *)
(***************************************************************************)
Unauthenticated(f, r) ==
    f = Flash("Please log in first.", "warning") /\ r = Redirect("login")
OwnershipForbidden(f, r) ==
    /\ f = Flash("You cannot cancel others' appointments.", "danger")
    /\ r = Redirect("appointments")
RoleForbidden(f, r) ==
    \/ /\ f = Flash("Only students can create appointments in this demo.", "warning")
       /\ r = Redirect("appointments")
    \/ /\ f = Flash("Only faculty can manage availability.", "warning")
       /\ r = Redirect("dashboard")
    \/ /\ f = Flash("Only admin can manage departments.", "warning")
       /\ r = Redirect("dashboard")
DuplicateEmail(f, r) ==
    f = Flash("Email already registered.", "danger") /\ r = Redirect("register")
InvalidCredentials(f, r) ==
    /\ f = Flash("Invalid email or password.", "danger")
    /\ r = Render("login.html", [form |-> "login"])

(***************************************************************************)
(* Vocabulary of the properties                                            *)
(***************************************************************************)
IsOwner(user, appt) ==
    appt.student_id = user.user_id \/ appt.faculty_id = user.user_id

\* A step of one of the six protected operations, whatever its parameters
ProtectedRequest ==
    \/ dashboard
    \/ appointments_list
    \/ \E method \in Methods : \E form \in Forms(method, AppointmentForms) :
            new_appointment(method, form)
    \/ \E appointment_id \in CancelIds : cancel_appointment(appointment_id)
    \/ \E method \in Methods : \E form \in Forms(method, AvailabilityForms) :
            availability_route(method, form)
    \/ \E method \in Methods : \E form \in Forms(method, DepartmentForms) :
            departments_route(method, form)

\* Whether the table after the step is the table before it with `row` added
\* at the end: one row more, and every earlier row as it was.
AddsOneRow(before, after) ==
    /\ Len(after) = Len(before) + 1
    /\ \A i \in 1 .. Len(before) : after[i] = before[i]

RECURSIVE SumSeq(_)
SumSeq(values) ==
    IF values = << >> THEN 0 ELSE Head(values) + SumSeq(Tail(values))

\* Minutes after midnight of the times the model submits
Minutes(time) ==
    CASE time = "09:00" -> 540 [] time = "09:30" -> 570
      [] time = "10:00" -> 600 [] time = "10:30" -> 630
Overlap(s, t) ==
    /\ s.day_of_week = t.day_of_week
    /\ Minutes(s.start_time) < Minutes(t.end_time)
    /\ Minutes(t.start_time) < Minutes(s.end_time)

(***************************************************************************)
(* C1: a cancel request changes an appointment's status only if the        *)
(* session's user is its student or its faculty member, or has the role    *)
(* admin; this is to hold for every user register can create.              *)
(***************************************************************************)
C1_CancelOnlyByOwnerOrAdmin ==
    [][\A i \in 1 .. Len(appointments) :
          appointments'[i].status # appointments[i].status
          => \E user \in current_user :
                IsOwner(user, appointments[i]) \/ user.role = "admin"]_vars

(***************************************************************************)
(* C2: a faculty user cancelling an appointment whose faculty_id is        *)
(* another user, or a student cancelling one whose student_id is another   *)
(* user, gets OwnershipForbidden and no row of any table changes.          *)
(***************************************************************************)
C2_NonOwnerCancelRefused ==
    [][\A appointment_id \in CancelIds : \A user \in current_user :
          ( /\ cancel_appointment(appointment_id)
            /\ appointment_id \in 1 .. Len(appointments)
            /\ \/ /\ user.role = "faculty"
                  /\ appointments[appointment_id].faculty_id # user.user_id
               \/ /\ user.role = "student"
                  /\ appointments[appointment_id].student_id # user.user_id )
          => /\ OwnershipForbidden(flashed', response')
             /\ UNCHANGED tables]_vars

\* A faculty user has just been refused the cancellation of an appointment
\* that is still scheduled and names another faculty member.
C2_Witness ==
    /\ OwnershipForbidden(flashed, response)
    /\ \E user \in current_user :
          /\ user.role = "faculty"
          /\ \E a \in Range(appointments) :
                a.faculty_id # user.user_id /\ a.status = "scheduled"

(***************************************************************************)
(* C3: with no session, every protected operation answers Unauthenticated  *)
(* and leaves the five tables (and the session) as they were, and logout   *)
(* changes neither the tables nor the session.                             *)
(***************************************************************************)
C3_NoSessionNoAccess ==
    [][~InSession("user_id")
          => /\ ProtectedRequest
                  => /\ Unauthenticated(flashed', response')
                     /\ UNCHANGED <<tables, session>>
             /\ logout => UNCHANGED <<tables, session>>]_vars

\* After a logout (an appointment exists, so somebody had logged in) a
\* protected operation has been turned away.
C3_Witness ==
    /\ ~InSession("user_id")
    /\ Unauthenticated(flashed, response)
    /\ Len(appointments) > 0

(***************************************************************************)
(* C4: every appointment's status is scheduled or cancelled, never         *)
(* completed, and the only change of a status is scheduled to cancelled:   *)
(* a cancelled appointment stays cancelled.                                *)
(***************************************************************************)
C4_StatusOneWay ==
    /\ [](\A a \in Range(appointments) : a.status \in {"scheduled", "cancelled"})
    /\ [][\A i \in 1 .. Len(appointments) :
             /\ i <= Len(appointments')
             /\ appointments'[i].status # appointments[i].status
                  => /\ appointments[i].status = "scheduled"
                     /\ appointments'[i].status = "cancelled"
             /\ appointments[i].status = "cancelled"
                  => appointments'[i].status = "cancelled"]_vars

\* A cancel request has just succeeded and a cancelled appointment stands
\* beside a scheduled one.
C4_Witness ==
    /\ flashed = Flash("Appointment cancelled.", "info")
    /\ \E a, b \in Range(appointments) :
          a.status = "cancelled" /\ b.status = "scheduled"

(***************************************************************************)
(* C5: a successful create_appointment by a student adds exactly one       *)
(* Appointment (scheduled, student_id the caller, faculty_id as submitted) *)
(* and exactly one Notification (pending) that references it; no other     *)
(* Appointment or Notification row is added or changed.                    *)
(***************************************************************************)
C5_CreateAddsOneOfEach ==
    [][\A form \in AppointmentForms : \A user \in current_user :
          ( /\ new_appointment("POST", form)
            /\ flashed' = Flash("Appointment created.", "success") )
          => /\ user.role = "student"
             /\ AddsOneRow(appointments, appointments')
             /\ AddsOneRow(notifications, notifications')
             /\ LET appt == appointments'[Len(appointments')]
                    notif == notifications'[Len(notifications')]
                IN /\ appt.status = "scheduled"
                   /\ appt.student_id = user.user_id
                   /\ appt.faculty_id = ParseInt(form.faculty_id)
                   /\ \A a \in Range(appointments) :
                         a.appointment_id # appt.appointment_id
                   /\ notif.appointment_id = appt.appointment_id
                   /\ notif.sent_status = "pending"
                   /\ \A n \in Range(notifications) :
                         n.appointment_id # appt.appointment_id]_vars

\* A second appointment has just been created: two appointments, two
\* notifications, each notification naming its own appointment.
C5_Witness ==
    /\ flashed = Flash("Appointment created.", "success")
    /\ Len(appointments) = 2
    /\ Len(notifications) = 2
    /\ \A i \in 1 .. 2 :
          notifications[i].appointment_id = appointments[i].appointment_id

(***************************************************************************)
(* C6: a role-gated write by a logged-in user of the wrong role gets       *)
(* RoleForbidden and changes no table: create_appointment by a             *)
(* non-student, add_availability by a non-faculty user, add_department by  *)
(* a non-admin.                                                            *)
(***************************************************************************)
C6_WrongRoleRefused ==
    [][\A user \in current_user :
          /\ ( /\ user.role # "student"
               /\ \E form \in AppointmentForms : new_appointment("POST", form) )
             => RoleForbidden(flashed', response') /\ UNCHANGED tables
          /\ ( /\ user.role # "faculty"
               /\ \E form \in AvailabilityForms : availability_route("POST", form) )
             => RoleForbidden(flashed', response') /\ UNCHANGED tables
          /\ ( /\ user.role # "admin"
               /\ \E form \in DepartmentForms : departments_route("POST", form) )
             => RoleForbidden(flashed', response') /\ UNCHANGED tables]_vars

\* A registered user whose role is none of the three has just been refused
\* the availability page.
C6_Witness ==
    /\ flashed = Flash("Only faculty can manage availability.", "warning")
    /\ response = Redirect("dashboard")
    /\ \E user \in current_user : user.role = "guest"

(***************************************************************************)
(* C7: registering with an email already in the User table gets            *)
(* DuplicateEmail and adds no row, so no two users ever share an email.    *)
(***************************************************************************)
C7_DuplicateEmailRefused ==
    /\ [](\A i, j \in 1 .. Len(users) :
             users[i].email = users[j].email => i = j)
    /\ [][\A form \in RegisterForms :
             ( /\ register("POST", form)
               /\ \E u \in Range(users) : u.email = form.email )
             => /\ DuplicateEmail(flashed', response')
                /\ UNCHANGED tables]_vars

\* A registration has just been refused after another one had succeeded.
C7_Witness ==
    /\ DuplicateEmail(flashed, response)
    /\ Len(users) = Len(SeedUsers(SeedSalt)) + 1

(***************************************************************************)
(* C8: a login whose email is not registered, or whose password does not   *)
(* match the stored hash of that email's user, gets InvalidCredentials and *)
(* changes neither the session nor the tables; the session gets bound to   *)
(* user id U only by a login whose email and password both match user U.   *)
(***************************************************************************)
C8_LoginNeedsMatchingPassword ==
    [][/\ \A form \in LoginForms :
             ( /\ login("POST", form)
               /\ ~\E u \in Range(users) :
                     /\ u.email = form.email
                     /\ check_password_hash(u.password_hash, form.password) )
             => /\ InvalidCredentials(flashed', response')
                /\ UNCHANGED <<tables, session>>
       /\ \A uid \in SessionGet("user_id")' \ SessionGet("user_id") :
             \E form \in LoginForms, u \in Range(users) :
                /\ login("POST", form)
                /\ u.user_id = uid
                /\ u.email = form.email
                /\ check_password_hash(u.password_hash, form.password)]_vars

\* The registered user's email has just been refused with a password that
\* is another user's, while nobody is logged in.
C8_Witness ==
    /\ InvalidCredentials(flashed, response)
    /\ ~InSession("user_id")
    /\ Len(users) = Len(SeedUsers(SeedSalt)) + 1

(***************************************************************************)
(* C9: the department-grouped counts of the dashboard list a department    *)
(* only if some appointment's faculty_id is a user of that department, no  *)
(* listed count is zero, and the listed counts sum to at most the total    *)
(* number of appointments.                                                 *)
(***************************************************************************)
C9_DeptCountsInnerJoin ==
    /\ \A dc \in dept_counts :
          /\ dc[2] > 0
          /\ \E d \in Range(departments), u \in Range(users),
                a \in Range(appointments) :
                /\ d.department_name = dc[1]
                /\ u.department_id = d.department_id
                /\ a.faculty_id = u.user_id
    /\ Len(chart_labels) = Cardinality(dept_counts)
    /\ SumSeq(chart_values) <= Len(appointments)
    /\ response.target = "dashboard.html"
          => /\ response.context.chart_labels = chart_labels
             /\ response.context.chart_values = chart_values
             /\ \A i \in 1 .. Len(response.context.chart_values) :
                   response.context.chart_values[i] > 0
             /\ SumSeq(response.context.chart_values)
                   <= response.context.total_appointments

\* The dashboard shows one department with one appointment although two
\* appointments exist: the other one's faculty_id is in no department.
C9_Witness ==
    /\ response.target = "dashboard.html"
    /\ response.context.total_appointments = 2
    /\ response.context.chart_labels = <<"Computer Science">>
    /\ response.context.chart_values = <<1>>

(***************************************************************************)
(* C10: add_availability by a faculty user always succeeds and adds        *)
(* exactly one Availability row of that user with the flag true, whatever  *)
(* slots exist; overlapping or identical slots are both stored and the     *)
(* list returned holds both.                                               *)
(***************************************************************************)
C10_AvailabilityAlwaysAdded ==
    [][\A form \in AvailabilityForms : \A user \in current_user :
          ( /\ availability_route("POST", form)
            /\ user.role = "faculty" )
          => /\ flashed' = Flash("Availability slot added.", "success")
             /\ AddsOneRow(availability, availability')
             /\ LET slot == availability'[Len(availability')]
                IN /\ slot.faculty_id = user.user_id
                   /\ slot.is_available = TRUE
                   /\ slot.day_of_week = form.day_of_week
                   /\ slot.start_time = form.start_time
                   /\ slot.end_time = form.end_time
                   /\ response'.target = "availability.html"
                   /\ Range(response'.context.slots) =
                         {s \in Range(availability) : s.faculty_id = user.user_id}
                         \cup {slot}
             /\ UNCHANGED <<departments, users, appointments, notifications>>]_vars

\* A faculty member has just added a slot that overlaps one they already
\* had, and the page lists both.
C10_Witness ==
    /\ flashed = Flash("Availability slot added.", "success")
    /\ \E user \in current_user :
          \E s, t \in Range(response.context.slots) :
             /\ s.availability_id # t.availability_id
             /\ s.faculty_id = user.user_id
             /\ t.faculty_id = user.user_id
             /\ Overlap(s, t)
             /\ s \in Range(availability)
             /\ t \in Range(availability)
====
